---- MODULE Spec2Model ----
(***************************************************************************)
(* Model of the KDP upload automation (src/kdp_automation.py): the         *)
(* completion ledger (processed_books and its processed_books.json file),  *)
(* the work queue (get_next_books_to_process), the per-book pipeline       *)
(* (process_single_book) and the batch driver (process_daily_batch).       *)
(* The browser and the KDP web site are the environment: the result of     *)
(* every stage, of the login and of every file write is chosen             *)
(* nondeterministically.                                                   *)
(*                                                                         *)
(* Specifications:                                                         *)
(*   Spec             the batch model: ledger, queue, pipeline, restarts   *)
(*   LedgerSpec       the ledger alone: markDone and load, any order       *)
(*   SchedSpec        run_scheduler, browser session, login, Ctrl+C, with  *)
(*                    batches of one book; TwoBookSchedSpec with two       *)
(*   StagesSpec       the batch model with upload_book_files and           *)
(*                    publish_book computed from what the page offers      *)
(*   DetailsSpec      the batch model with navigate_to_create_book and     *)
(*                    fill_book_details computed from what the page offers *)
(*   PrepSpec         the preparation process (src/kdp_preparation.py)     *)
(*   FairSpec         the batch model with a daily trigger that keeps      *)
(*                    firing and a login that keeps succeeding (fairness)  *)
(*   DelaySpec        the batch model with the delay between books         *)
(*   CatalogSpec      the batch model with a prepared-books directory that *)
(*                    grows while the automator runs                       *)
(*   OrderSpec        the directory names of two catalog rows, as the      *)
(*                    preparer writes them and as the automator sorts them *)
(***************************************************************************)
EXTENDS Integers, Sequences, FiniteSets, TLC

\* ---------------------------------------------------------------- bounds
NumBooks == 5        \* prepared books found by load_books_data
MaxCount == 3        \* largest books_per_day value tried
MaxBatches == 2      \* batches started over the whole behaviour
MaxRestarts == 1     \* process crashes followed by a new construction

VARIABLES
    pc,               \* position of the single thread of control
    driver,           \* self.driver: "none", "open" or "quit"
    logged_in,        \* result of login_to_kdp in the current batch
    books_per_day,    \* config AUTOMATION/books_per_day
    processed_books,  \* self.processed_books (in-memory ledger)
    tracking_file,    \* logs/processed_books.json (persisted ledger)
    books_to_process, \* local of process_daily_batch
    i,                \* loop index of process_daily_batch (0-based)
    attempted,        \* history: book indices passed to process_single_book in this batch
    results,          \* history: value returned by process_single_book, per attempt
    invoked,          \* history: stages called for the current book, with their result
    succeeded,        \* history: identifiers whose five stages all returned True, ever
    prev,             \* history: the previous batch of this process
    batch_start,      \* history: the ledger when the current batch started
    loaded_kind,      \* history: state of the tracking file when this process loaded it
    proc_batches,     \* history: batches started by this process
    batches,          \* batches started in the behaviour (bounded)
    restarts,         \* restarts in the behaviour (bounded)
    calls,            \* history: the calls of markDone made on the ledger alone
    session_file,     \* session_data.json (persisted browser session)
    session_data,     \* SessionManager.session_data (loaded by its constructor)
    orphans,          \* browsers started by this process that no reference is left to
    due,              \* the daily job's next_run time has passed
    caller,           \* who called process_daily_batch: "startup" or "job"
    interrupted_at,   \* history: position at which KeyboardInterrupt was raised
    login_trace,      \* history: the steps login_to_kdp took in the current batch
    stage_report,     \* history: what the last detailed stage met and did
    ui_log,           \* history: whether every UI operation of the current book succeeded
    min_delay,        \* config AUTOMATION/min_delay
    max_delay,        \* config AUTOMATION/max_delay
    delays,           \* history: the delays slept between the books of a batch
    books_loaded,     \* len(self.books_data): the rows load_books_data loaded
    disk_books,       \* prepared book directories that exist on disk
    books_df,         \* KDPFileManager.books_df: the rows of the catalog file
    fm_processed,     \* KDPFileManager.processed_books (row indices, in memory only)
    prepared,         \* the descriptors (metadata.json) written, by row index
    summaries,        \* the batch summaries written, in order
    fm_pc,            \* position of the preparation process
    fm_batch,         \* history: the last preparation batch
    name_case         \* two catalog rows and the directory names derived from them

vars == <<pc, driver, logged_in, books_per_day, processed_books, tracking_file,
          books_to_process, i, attempted, results, invoked, succeeded, prev,
          batch_start, loaded_kind, proc_batches, batches, restarts, calls,
          session_file, session_data, orphans, due, caller, interrupted_at,
          login_trace, stage_report, ui_log, min_delay, max_delay, delays,
          books_loaded, disk_books, books_df, fm_processed, prepared, summaries,
          fm_pc, fm_batch, name_case>>

\* -------------------------------------------------------- session file
MissingSession == [kind |-> "missing", saved_in |-> 0, cookies |-> FALSE]
CorruptSession == [kind |-> "corrupt", saved_in |-> 0, cookies |-> FALSE]

\* the dictionary {} load_session returns when there is nothing to load
EmptySession == [saved_in |-> 0, cookies |-> FALSE]

\* no upload or publish stage has run yet
NoReport == [batch |-> 0, book |-> -1, report |-> [stage |-> "none"]]

\* the variables of the scheduler, of the browser session and of the login,
\* and the report of the stages
schedvars == <<session_file, session_data, orphans, due, caller,
               interrupted_at, login_trace, stage_report>>

SchedVarsInit ==
    /\ session_file = MissingSession
    /\ session_data = EmptySession
    /\ orphans = 0
    /\ due = FALSE
    /\ caller = "none"
    /\ interrupted_at = "none"
    /\ login_trace = <<>>
    /\ stage_report = NoReport

\* the pipeline log, the inter-book delay, the catalog on disk, the
\* preparation process and the directory names
uivars == <<ui_log>>

delayvars == <<min_delay, max_delay, delays>>

catvars == <<books_loaded, disk_books>>

prepvars == <<books_df, fm_processed, prepared, summaries, fm_pc, fm_batch>>

ordvars == <<name_case>>

extvars == <<uivars, delayvars, catvars, prepvars, ordvars>>

\* no stage of any book has been logged
NoUiLog == [batch |-> 0, book |-> -1, cooperative |-> TRUE]

UiInit == ui_log = NoUiLog

\* no delay has been slept
NoDelays == [batch |-> 0, slept |-> <<>>]

DelayIdle ==
    /\ min_delay = 0
    /\ max_delay = 0
    /\ delays = NoDelays

\* the catalog on disk is the catalog that was loaded
CatIdle ==
    /\ books_loaded = NumBooks
    /\ disk_books = NumBooks

NoFmBatch == [queue |-> <<>>, raised_at |-> 0]

\* no preparation process runs
PrepIdle ==
    /\ books_df = <<>>
    /\ fm_processed = {}
    /\ prepared = <<>>
    /\ summaries = <<>>
    /\ fm_pc = "none"
    /\ fm_batch = NoFmBatch

NoNameCase == [phase |-> "none"]

OrdIdle == name_case = NoNameCase

ExtVarsInit ==
    /\ UiInit
    /\ DelayIdle
    /\ CatIdle
    /\ PrepIdle
    /\ OrdIdle

\* the variables the batch model leaves alone
aux == <<calls, schedvars, extvars>>

AuxInit ==
    /\ calls = <<>>
    /\ SchedVarsInit
    /\ ExtVarsInit

\* ------------------------------------------------------------- catalog
BookIndices == 0 .. (NumBooks - 1)

\* load_books_data: one row per prepared directory, sorted by directory name;
\* book_directory is the path of the directory, book_index the row position.
books_data ==
    [b \in BookIndices |->
        [book_directory |-> <<"prepared_books", <<"book", b>>>>, book_index |-> b]]

\* os.path.basename: the last component of a path
basename(path) == path[Len(path)]

DirName(b) == basename(books_data[b].book_directory)

AllDirNames == {DirName(b) : b \in BookIndices}

\* ------------------------------------------------------- tracking file
MissingFile == [kind |-> "missing", processed_directories |-> {}, total_processed |-> 0]
CorruptFile == [kind |-> "corrupt", processed_directories |-> {}, total_processed |-> 0]

\* load_processed_books_tracking: the set it leaves in self.processed_books and
\* whether an exception escapes it.  A missing file takes the else branch, a
\* file json.load cannot parse takes the except branch.
load_processed_books_tracking_narrow_except(f) ==
    IF f.kind = "missing" THEN [raised |-> FALSE, books |-> {}]
    ELSE IF f.kind = "corrupt" THEN [raised |-> TRUE, books |-> {}]
    ELSE [raised |-> FALSE, books |-> f.processed_directories]

load_processed_books_tracking(f) ==
    IF f.kind = "missing" THEN [raised |-> FALSE, books |-> {}]
    ELSE IF f.kind = "corrupt" THEN [raised |-> FALSE, books |-> {}]
    ELSE [raised |-> FALSE, books |-> f.processed_directories]

\* save_processed_books_tracking: open(..., 'w') then json.dump, any exception
\* logged and swallowed.  "ok": the file holds the new record; "open_fails":
\* the file is left as it was; "write_fails": the file was truncated by open
\* and the record was not written, which leaves text json.load rejects.
SaveOutcomes == {"ok", "open_fails", "write_fails"}

save_processed_books_tracking(pb, f, outcome) ==
    CASE outcome = "ok" ->
            [kind |-> "valid", processed_directories |-> pb,
             total_processed |-> Cardinality(pb)]
      [] outcome = "open_fails" -> f
      [] outcome = "write_fails" -> CorruptFile

\* the identifiers a reader of the persisted record finds
PersistedDirs == IF tracking_file.kind = "valid" THEN tracking_file.processed_directories ELSE {}

\* ---------------------------------------------------------- work queue
\* the body of the loop of get_next_books_to_process, from index k on: append
\* k when its directory name is not in processed_books, break once
\* len(available_books) >= count
RECURSIVE scan_books(_, _, _, _)
scan_books(k, available_books, count, pb) ==
    IF k >= NumBooks THEN available_books
    ELSE IF DirName(k) \notin pb
         THEN LET appended == Append(available_books, k)
              IN  IF Len(appended) >= count THEN appended
                  ELSE scan_books(k + 1, appended, count, pb)
         ELSE scan_books(k + 1, available_books, count, pb)

\* get_next_books_to_process: the loop over range(len(self.books_data)),
\* returning available_books
get_next_books_to_process_unfiltered(count, pb) == scan_books(0, <<>>, count, {})

get_next_books_to_process_from_one(count, pb) == scan_books(1, <<>>, count, pb)

get_next_books_to_process(count, pb) == scan_books(0, <<>>, count, pb)

\* ------------------------------------------------------------ pipeline
Stages == <<"navigate", "details", "upload", "pricing", "publish">>

StageSet == {Stages[k] : k \in 1 .. Len(Stages)}

\* process_single_book: the statement reached when a stage returned True
NextStage_skip_publish(s) ==
    CASE s = "navigate" -> "details"
      [] s = "details" -> "upload"
      [] s = "upload" -> "pricing"
      [] s = "pricing" -> "mark"
      [] s = "publish" -> "mark"

NextStage_swapped(s) ==
    CASE s = "navigate" -> "upload"
      [] s = "upload" -> "details"
      [] s = "details" -> "pricing"
      [] s = "pricing" -> "publish"
      [] s = "publish" -> "mark"

NextStage(s) ==
    CASE s = "navigate" -> "details"
      [] s = "details" -> "upload"
      [] s = "upload" -> "pricing"
      [] s = "pricing" -> "publish"
      [] s = "publish" -> "mark"

\* process_single_book: `if not self.<stage>(...): return False`
AfterStage_ignore_details(s, ok) ==
    IF ok \/ s = "details" THEN NextStage(s) ELSE "book_end"

AfterStage(s, ok) == IF ok THEN NextStage(s) ELSE "book_end"

\* process_daily_batch: `if not self.login_to_kdp(): return`
AfterLogin_no_return(ok) == "queue"

AfterLogin(ok) == IF ok THEN "queue" ELSE "finally"

\* process_daily_batch: the for loop goes on to the next book whatever
\* process_single_book returned
AfterBook_stop_on_failure(ok, idx, n) ==
    IF ok /\ idx < n - 1 THEN "book_start" ELSE "finally"

AfterBook(ok, idx, n) == IF idx < n - 1 THEN "book_start" ELSE "finally"

CurrentBook == books_to_process[i + 1]

CurrentDir == DirName(CurrentBook)

NoBatch == [ran |-> FALSE, attempted |-> <<>>, results |-> <<>>, start |-> {}]

\* ---------------------------------------------------------------- Init
\* KDPAutomator.__init__ on a first start: the tracking file does not exist
\* yet, or holds text that is not JSON.
BatchInit ==
    /\ tracking_file \in {MissingFile, CorruptFile}
    /\ books_per_day \in 0 .. MaxCount
    /\ processed_books = load_processed_books_tracking(tracking_file).books
    /\ loaded_kind = tracking_file.kind
    /\ pc = IF load_processed_books_tracking(tracking_file).raised THEN "dead" ELSE "idle"
    /\ driver = "none"
    /\ logged_in = "pending"
    /\ books_to_process = <<>>
    /\ i = 0
    /\ attempted = <<>>
    /\ results = <<>>
    /\ invoked = <<>>
    /\ succeeded = {}
    /\ prev = NoBatch
    /\ batch_start = [processed_books |-> {}, tracking_file |-> MissingFile]
    /\ proc_batches = 0
    /\ batches = 0
    /\ restarts = 0

\* the batch model starts with everything else at rest
Init ==
    /\ BatchInit
    /\ AuxInit


\* the state KDPAutomator.__init__ leaves, given the tracking file it finds
Constructed(f) ==
    /\ processed_books' = load_processed_books_tracking(f).books
    /\ loaded_kind' = f.kind
    /\ pc' = IF load_processed_books_tracking(f).raised THEN "dead" ELSE "idle"
    /\ driver' = "none"
    /\ logged_in' = "pending"
    /\ books_to_process' = <<>>
    /\ i' = 0
    /\ attempted' = <<>>
    /\ results' = <<>>
    /\ invoked' = <<>>
    /\ prev' = NoBatch
    /\ batch_start' = [processed_books |-> {}, tracking_file |-> MissingFile]
    /\ proc_batches' = 0

\* ------------------------------------------------- process_daily_batch
\* entry of process_daily_batch (called by run_scheduler at startup and by
\* the daily job): reads books_per_day and enters the try block
StartBatch ==
    /\ pc = "idle"
    /\ batches < MaxBatches
    /\ pc' = "setup"
    /\ prev' = IF proc_batches = 0 THEN NoBatch
               ELSE [ran |-> logged_in = "ok", attempted |-> attempted,
                     results |-> results, start |-> batch_start.processed_books]
    /\ batch_start' = [processed_books |-> processed_books, tracking_file |-> tracking_file]
    /\ logged_in' = "pending"
    /\ books_to_process' = <<>>
    /\ i' = 0
    /\ attempted' = <<>>
    /\ results' = <<>>
    /\ invoked' = <<>>
    /\ proc_batches' = proc_batches + 1
    /\ batches' = batches + 1
    /\ UNCHANGED <<driver, books_per_day, processed_books, tracking_file,
                   succeeded, loaded_kind, restarts>>
    /\ UNCHANGED aux

\* self.driver = self.setup_browser(): returns a driver or raises, and the
\* exception is caught by the except clause of process_daily_batch
SetupBrowser ==
    /\ pc = "setup"
    /\ \E ok \in BOOLEAN :
          /\ driver' = IF ok THEN "open" ELSE driver
          /\ pc' = IF ok THEN "login" ELSE "finally"
    /\ UNCHANGED <<logged_in, books_per_day, processed_books, tracking_file,
                   books_to_process, i, attempted, results, invoked, succeeded,
                   prev, batch_start, loaded_kind, proc_batches, batches,
                   restarts>>
    /\ UNCHANGED aux

\* if not self.login_to_kdp(): return
Login ==
    /\ pc = "login"
    /\ \E ok \in BOOLEAN :
          /\ logged_in' = IF ok THEN "ok" ELSE "failed"
          /\ pc' = AfterLogin(ok)
    /\ UNCHANGED <<driver, books_per_day, processed_books, tracking_file,
                   books_to_process, i, attempted, results, invoked, succeeded,
                   prev, batch_start, loaded_kind, proc_batches, batches,
                   restarts>>
    /\ UNCHANGED aux

\* books_to_process = self.get_next_books_to_process(books_per_day), and the
\* return on an empty list
GetBooks ==
    /\ pc = "queue"
    /\ books_to_process' = get_next_books_to_process(books_per_day, processed_books)
    /\ pc' = IF books_to_process' = <<>> THEN "finally" ELSE "book_start"
    /\ i' = 0
    /\ UNCHANGED <<driver, logged_in, books_per_day, processed_books,
                   tracking_file, attempted, results, invoked, succeeded, prev,
                   batch_start, loaded_kind, proc_batches, batches, restarts>>
    /\ UNCHANGED aux

\* ------------------------------------------------- process_single_book
AllSucceeded(inv) ==
    /\ Len(inv) = Len(Stages)
    /\ \A k \in 1 .. Len(Stages) : inv[k] = [stage |-> Stages[k], ok |-> TRUE]

\* entry of process_single_book(book_index): reads the row, logs the header
BookStart ==
    /\ pc = "book_start"
    /\ attempted' = Append(attempted, CurrentBook)
    /\ invoked' = <<>>
    /\ pc' = "navigate"
    /\ UNCHANGED <<driver, logged_in, books_per_day, processed_books,
                   tracking_file, books_to_process, i, results, succeeded, prev,
                   batch_start, loaded_kind, proc_batches, batches, restarts>>
    /\ UNCHANGED aux

\* stage s returned ok, and the `if not ...: return False` that follows it
StageReturns(s, ok) ==
    /\ pc = s
    /\ invoked' = Append(invoked, [stage |-> s, ok |-> ok])
    /\ pc' = AfterStage(s, ok)
    /\ results' = IF AfterStage(s, ok) = "book_end"
                  THEN Append(results, FALSE) ELSE results
    /\ succeeded' = IF AllSucceeded(invoked') THEN succeeded \cup {CurrentDir}
                    ELSE succeeded
    /\ UNCHANGED <<driver, logged_in, books_per_day, processed_books,
                   tracking_file, books_to_process, i, attempted, prev,
                   batch_start, loaded_kind, proc_batches, batches, restarts>>

\* one stage call and the `if not ...: return False` that follows it; every
\* stage function catches its own exceptions and returns True or False
StageStep(s) ==
    /\ \E ok \in BOOLEAN : StageReturns(s, ok)
    /\ UNCHANGED aux

NavigateToCreateBook == StageStep("navigate")

FillBookDetails == StageStep("details")

UploadBookFiles == StageStep("upload")

SetPricing == StageStep("pricing")

PublishBook == StageStep("publish")

\* self.processed_books.add(basename); self.save_processed_books_tracking();
\* return True
MarkProcessed ==
    /\ pc = "mark"
    /\ processed_books' =
          processed_books \cup {basename(books_data[CurrentBook].book_directory)}
    /\ \E outcome \in SaveOutcomes :
          tracking_file' =
              save_processed_books_tracking(processed_books', tracking_file, outcome)
    /\ results' = Append(results, TRUE)
    /\ pc' = "book_end"
    /\ UNCHANGED <<driver, logged_in, books_per_day, books_to_process, i,
                   attempted, invoked, succeeded, prev, batch_start,
                   loaded_kind, proc_batches, batches, restarts>>
    /\ UNCHANGED aux

\* the rest of the loop body after process_single_book returned: count the
\* success, sleep the random delay when another book follows, else leave the
\* loop and log the summary
LoopTail ==
    /\ pc = "book_end"
    /\ pc' = AfterBook(results[Len(results)], i, Len(books_to_process))
    /\ i' = IF pc' = "book_start" THEN i + 1 ELSE i
    /\ UNCHANGED <<driver, logged_in, books_per_day, processed_books,
                   tracking_file, books_to_process, attempted, results, invoked,
                   succeeded, prev, batch_start, loaded_kind, proc_batches,
                   batches, restarts>>
    /\ UNCHANGED aux

\* finally: if self.driver: save_session(driver); driver.quit()
Finally ==
    /\ pc = "finally"
    /\ driver' = IF driver = "none" THEN "none" ELSE "quit"
    /\ pc' = "idle"
    /\ UNCHANGED <<logged_in, books_per_day, processed_books, tracking_file,
                   books_to_process, i, attempted, results, invoked, succeeded,
                   prev, batch_start, loaded_kind, proc_batches, batches,
                   restarts>>
    /\ UNCHANGED aux

\* ------------------------------------------------------------ restarts
\* the process ends at any point (kill, power loss, Ctrl+C) and main() is run
\* again: KDPAutomator.__init__ loads the tracking file the old process left
Restart ==
    /\ pc # "dead"
    /\ restarts < MaxRestarts
    /\ restarts' = restarts + 1
    /\ Constructed(tracking_file)
    /\ UNCHANGED <<books_per_day, tracking_file, succeeded, batches>>
    /\ UNCHANGED aux

\* the process ends inside save_processed_books_tracking, after open(..., 'w')
\* truncated the file and before json.dump finished
RestartDuringSave ==
    /\ pc = "mark"
    /\ restarts < MaxRestarts
    /\ restarts' = restarts + 1
    /\ tracking_file' = CorruptFile
    /\ Constructed(CorruptFile)
    /\ UNCHANGED <<books_per_day, succeeded, batches>>
    /\ UNCHANGED aux

Next ==
    \/ StartBatch
    \/ SetupBrowser
    \/ Login
    \/ GetBooks
    \/ BookStart
    \/ NavigateToCreateBook
    \/ FillBookDetails
    \/ UploadBookFiles
    \/ SetPricing
    \/ PublishBook
    \/ MarkProcessed
    \/ LoopTail
    \/ Finally
    \/ Restart
    \/ RestartDuringSave

Spec == Init /\ [][Next]_vars

TypeOK ==
    /\ pc \in {"idle", "setup", "login", "queue", "book_start", "mark", "book_end",
               "finally", "dead"} \cup StageSet
    /\ driver \in {"none", "open", "quit"}
    /\ logged_in \in {"pending", "ok", "failed"}
    /\ processed_books \subseteq AllDirNames
    /\ tracking_file.kind \in {"missing", "corrupt", "valid"}


\* ------------------------------------------------------------- helpers
Range(seq) == {seq[k] : k \in 1 .. Len(seq)}

Min(a, b) == IF a < b THEN a ELSE b

Max(a, b) == IF a > b THEN a ELSE b

\* the first n elements of seq (all of them when there are fewer, none when n <= 0)
Take(seq, n) == SubSeq(seq, 1, Min(Max(n, 0), Len(seq)))

\* the book indices from lo to NumBooks - 1 that are in S, in catalog order
RECURSIVE CatalogFrom(_, _)
CatalogFrom(lo, S) ==
    IF lo >= NumBooks THEN <<>>
    ELSE (IF lo \in S THEN <<lo>> ELSE <<>>) \o CatalogFrom(lo + 1, S)

\* the catalog books whose identifier is not in ledger L, in catalog order
Unprocessed(L) == CatalogFrom(0, {b \in BookIndices : DirName(b) \notin L})

\* the queue of the current batch has been computed
QueueDone == logged_in = "ok" /\ pc # "queue"

\* the batch of the current process has run to its end
BatchOver == pc \in {"finally", "idle"}

\* the books of a batch record whose pipeline returned r
BooksWith(att, res, r) == {att[k] : k \in {j \in 1 .. Len(res) : res[j] = r}}

\* ------------------------------------------------------------------ C1
\* C1 as stated: at every point of a run outside the two statements that
\* follow the last stage, an identifier is in the ledger if and only if all
\* five stages of its book reported success at some earlier time (checked
\* for the batch sizes of at least one).
C1_LedgerIffAllStagesSucceeded ==
    (books_per_day >= 1 /\ pc # "mark") => processed_books = succeeded

\* C1 amended: an identifier is in the in-memory or in the persisted ledger
\* only if all five stages of its book reported success before; every book
\* whose pipeline returned success in the running process is in the in-memory
\* ledger; and the only step that adds an identifier is the one that follows
\* a successful Publish, which adds the identifier of the current book.
C1_LedgerOnlyAfterAllStages ==
    /\ [](/\ processed_books \subseteq succeeded
          /\ PersistedDirs \subseteq succeeded
          /\ \A b \in BooksWith(attempted, results, TRUE) \cup
                      BooksWith(prev.attempted, prev.results, TRUE) :
                DirName(b) \in processed_books)
    /\ [][~(processed_books' \subseteq processed_books) =>
            /\ pc = "mark"
            /\ AllSucceeded(invoked)
            /\ processed_books' = processed_books \cup {CurrentDir}]_vars

C1_Witness ==
    /\ pc = "idle"
    /\ processed_books # {}
    /\ processed_books = succeeded
    /\ BooksWith(attempted, results, FALSE) # {}

\* ------------------------------------------------------------------ C2
\* C2: once a stage of a book has reported failure, that stage is the last
\* one invoked for the book: the pipeline is at its return, no later stage
\* runs, False is returned, and the book's identifier is in neither the
\* in-memory nor the persisted ledger.
C2_FailureShortCircuits ==
    \A k \in 1 .. Len(invoked) :
        ~invoked[k].ok =>
            /\ k = Len(invoked)
            /\ pc \in {"book_end", "book_start", "finally", "idle"}
            /\ Len(results) = Len(attempted)
            /\ results[Len(results)] = FALSE
            /\ DirName(attempted[Len(attempted)]) \notin processed_books
            /\ DirName(attempted[Len(attempted)]) \notin PersistedDirs

C2_Witness ==
    /\ pc = "book_end"
    /\ Len(invoked) = 2
    /\ invoked[2] = [stage |-> "details", ok |-> FALSE]
    /\ processed_books # {}

\* ------------------------------------------------------------------ C3
\* C3: in a batch whose login failed no book is attempted, no stage is
\* invoked, the queue is not computed, and both ledgers are as they were when
\* the batch started.
C3_LoginFailureAbortsBatch ==
    logged_in = "failed" =>
        /\ BatchOver
        /\ attempted = <<>>
        /\ invoked = <<>>
        /\ books_to_process = <<>>
        /\ processed_books = batch_start.processed_books
        /\ tracking_file = batch_start.tracking_file

C3_Witness ==
    /\ logged_in = "failed"
    /\ pc = "idle"
    /\ Unprocessed(processed_books) # <<>>
    /\ processed_books # {}

C5_StagesInFixedOrder ==
    /\ Len(invoked) <= Len(Stages)
    /\ \A k \in 1 .. Len(invoked) :
          /\ invoked[k].stage = Stages[k]
          /\ k > 1 => invoked[k - 1].ok
    /\ pc \in StageSet =>
          /\ Len(invoked) < Len(Stages)
          /\ pc = Stages[Len(invoked) + 1]
          /\ \A k \in 1 .. Len(invoked) : invoked[k].ok
    /\ pc = "mark" => AllSucceeded(invoked)

C5_Witness ==
    /\ pc = "book_end"
    /\ results[Len(results)] = TRUE
    /\ AllSucceeded(invoked)

\* ------------------------------------------------------------------ C6
\* C6: the queue a batch computes is exactly the first books_per_day books of
\* the catalog, in catalog order, whose identifier is not in the ledger; so
\* it is shorter than books_per_day exactly when fewer unprocessed books
\* remain, and empty when books_per_day is 0.
C6_QueueIsFirstN ==
    QueueDone =>
        books_to_process = Take(Unprocessed(batch_start.processed_books), books_per_day)

\* ------------------------------------------------------------------ C7
\* the second batch of a process whose first batch started from an empty
\* ledger, both having logged in, with a batch size of at least one
TwoBatchesRan ==
    /\ proc_batches = 2
    /\ prev.ran
    /\ prev.start = {}
    /\ QueueDone
    /\ pc = "idle"
    /\ books_per_day >= 1

FollowingBooks(att) ==
    CatalogFrom(0, {b \in BookIndices : \A a \in Range(att) : b > a})

FailedBooks(att, res) == CatalogFrom(0, BooksWith(att, res, FALSE))

C9_SuccessIsPersisted ==
    (books_per_day >= 1 /\ pc = "book_end" /\ results[Len(results)] = TRUE) =>
        DirName(attempted[Len(attempted)]) \in PersistedDirs

\* ----------------------------------------------------------------- C10
\* C10: a process that found the tracking file missing or unparsable was
\* constructed (no exception escaped), starts from an empty ledger, and its
\* first batch queues the books from the start of the catalog, as many as
\* the batch size asks for.
C10_BadLedgerFileLoadsEmpty ==
    loaded_kind \in {"missing", "corrupt"} =>
        /\ pc # "dead"
        /\ proc_batches = 0 => processed_books = {}
        /\ proc_batches = 1 => batch_start.processed_books = {}
        /\ (proc_batches = 1 /\ QueueDone) =>
              /\ books_to_process # <<>>
              /\ \A k \in 1 .. Len(books_to_process) : books_to_process[k] = k - 1
              /\ Len(books_to_process) >= Min(books_per_day, NumBooks)

C10_Witness ==
    /\ loaded_kind = "corrupt"
    /\ restarts = 1
    /\ succeeded # {}
    /\ proc_batches = 1
    /\ QueueDone
    /\ DirName(books_to_process[1]) \in succeeded

\* ----------------------------------------------------------------- C12
\* C12: no step of a run (a batch step, a save that fails, a restart) removes
\* an identifier from the persisted ledger record: the set of identifiers a
\* reader finds in the tracking file only grows.
C12_PersistedOnlyGrows ==
    [][PersistedDirs \subseteq PersistedDirs']_vars

\* ----------------------------------------------------------------- C13
\* the process ends after Publish returned success and before the tracking
\* file holds the new record (before, or inside, the statements 1479-1480)
CrashBeforePersist ==
    /\ pc = "mark"
    /\ restarts' = restarts + 1

\* C13: when the process ends after a book's Publish succeeded and before
\* the ledger was persisted, the book's identifier is in neither the
\* persisted record nor the ledger the next process loads, and the queue the
\* next process computes selects the book (checked for the batch sizes of at
\* least one).
C13_CrashedBookIsSelectedAgain ==
    [][(CrashBeforePersist /\ books_per_day >= 1) =>
          /\ CurrentDir \notin PersistedDirs'
          /\ CurrentDir \notin processed_books'
          /\ CurrentBook \in
                Range(get_next_books_to_process(books_per_day, processed_books'))]_vars

\* ======================================================================
\* The ledger alone: markDone (the statements 1479-1480 of
\* process_single_book) called for any book of the catalog, any number of
\* times, on any tracking file an earlier run can have left, with new
\* processes loading the file in between.
\* ======================================================================
MaxCalls == 2        \* calls of markDone in one behaviour

\* the tracking files an earlier run can have left: none, an unparsable one,
\* or the record of any set of catalog books
LedgerFiles ==
    {MissingFile, CorruptFile} \cup
    {save_processed_books_tracking(pb, MissingFile, "ok") : pb \in SUBSET AllDirNames}

LedgerInit ==
    /\ tracking_file \in LedgerFiles
    /\ processed_books = load_processed_books_tracking(tracking_file).books
    /\ loaded_kind = tracking_file.kind
    /\ pc = "idle"
    /\ books_per_day = 1
    /\ driver = "none"
    /\ logged_in = "pending"
    /\ books_to_process = <<>>
    /\ i = 0
    /\ attempted = <<>>
    /\ results = <<>>
    /\ invoked = <<>>
    /\ succeeded = {}
    /\ prev = NoBatch
    /\ batch_start = [processed_books |-> {}, tracking_file |-> MissingFile]
    /\ proc_batches = 0
    /\ batches = 0
    /\ restarts = 0
    /\ calls = <<>>
    /\ SchedVarsInit
    /\ ExtVarsInit

\* self.processed_books.add(os.path.basename(book_directory));
\* self.save_processed_books_tracking() for book b: the call is recorded with
\* the ledger and the persisted record it leaves
MarkDone(b) ==
    /\ Len(calls) < MaxCalls
    /\ processed_books' =
          processed_books \cup {basename(books_data[b].book_directory)}
    /\ \E outcome \in SaveOutcomes :
          tracking_file' =
              save_processed_books_tracking(processed_books', tracking_file, outcome)
    /\ calls' = Append(calls,
                       [dir |-> DirName(b),
                        ledger |-> processed_books',
                        persisted |-> PersistedDirs',
                        total_processed |-> tracking_file'.total_processed])
    /\ UNCHANGED <<pc, driver, logged_in, books_per_day, books_to_process, i,
                   attempted, results, invoked, succeeded, prev, batch_start,
                   loaded_kind, proc_batches, batches, restarts>>
    /\ UNCHANGED schedvars
    /\ UNCHANGED extvars

\* a new process is constructed: load_processed_books_tracking reads the file
LoadLedger ==
    /\ processed_books' = load_processed_books_tracking(tracking_file).books
    /\ loaded_kind' = tracking_file.kind
    /\ UNCHANGED <<pc, driver, logged_in, books_per_day, tracking_file,
                   books_to_process, i, attempted, results, invoked, succeeded,
                   prev, batch_start, proc_batches, batches, restarts, calls>>
    /\ UNCHANGED schedvars
    /\ UNCHANGED extvars

LedgerNext ==
    \/ \E b \in BookIndices : MarkDone(b)
    \/ LoadLedger

LedgerSpec == LedgerInit /\ [][LedgerNext]_vars

\* ----------------------------------------------------------------- C11
\* C11: when markDone is called twice in a row for the same identifier, after
\* the second call the identifier is in the ledger, and the persisted
\* identifier set and its total_processed count have the size they had after
\* the first call.
C11_MarkTwiceIsIdempotent ==
    \A k \in 1 .. Len(calls) - 1 :
        calls[k + 1].dir = calls[k].dir =>
            /\ calls[k + 1].dir \in calls[k + 1].ledger
            /\ Cardinality(calls[k + 1].persisted) = Cardinality(calls[k].persisted)
            /\ calls[k + 1].total_processed = calls[k].total_processed

\* ======================================================================
\* The scheduler (run_scheduler), the browser session of a batch
\* (setup_browser, the finally clause of process_daily_batch), the login
\* (login_to_kdp with SessionManager) and the operator's Ctrl+C.  The book
\* loop is the one of the batch model: GetBooks, BookStart, the five stage
\* steps, MarkProcessed and LoopTail.
\* ======================================================================
\* SessionManager.load_session: the dictionary it returns, {} when the file
\* is missing or json.load rejects it
load_session(f) ==
    IF f.kind = "valid" THEN [saved_in |-> f.saved_in, cookies |-> f.cookies]
    ELSE EmptySession

\* SessionManager.save_session(driver), called in batch k: reading the
\* browser state raises on a driver that was quit; otherwise the outcomes are
\* those of a file write; any exception is logged and swallowed.  The
\* browser holds cookies (has_cookies) once it has loaded a page of the site.
save_session(drv, f, k, has_cookies, outcome) ==
    IF drv # "open" THEN f
    ELSE CASE outcome = "ok" -> [kind |-> "valid", saved_in |-> k, cookies |-> has_cookies]
           [] outcome = "open_fails" -> f
           [] outcome = "write_fails" -> CorruptSession

\* SessionManager.restore_session: False when session_data holds no cookies,
\* else True unless the browser raised
restore_session(sd, browser_ok) == sd.cookies /\ browser_ok

\* setup_browser: whether a browser was started and whether it raised
SetupOutcomes == {"ok", "no_browser", "raised_after_start"}

\* login_to_kdp: where it goes after restore_session returned
AfterRestore_abort(restored) == IF restored THEN "check_restored" ELSE "finally"

AfterRestore(restored) == IF restored THEN "check_restored" ELSE "credentials"

\* schedule.run_pending: the daily job runs when its next_run time has passed
JobDue_always(d) == TRUE

JobDue(d) == d

\* the positions inside run_scheduler's `while True` loop
Polling == {"poll", "sleep"}

\* a start of main() with the configured batch size n: no tracking file yet,
\* and no session file, an unparsable one, or one an earlier run saved
SchedInitFor(n) ==
    /\ tracking_file = MissingFile
    /\ books_per_day = n
    /\ processed_books = load_processed_books_tracking(tracking_file).books
    /\ loaded_kind = tracking_file.kind
    /\ pc = "idle"
    /\ driver = "none"
    /\ logged_in = "pending"
    /\ books_to_process = <<>>
    /\ i = 0
    /\ attempted = <<>>
    /\ results = <<>>
    /\ invoked = <<>>
    /\ succeeded = {}
    /\ prev = NoBatch
    /\ batch_start = [processed_books |-> {}, tracking_file |-> MissingFile]
    /\ proc_batches = 0
    /\ batches = 0
    /\ restarts = 0
    /\ calls = <<>>
    /\ session_file \in {MissingSession, CorruptSession,
                         [kind |-> "valid", saved_in |-> 0, cookies |-> TRUE]}
    /\ session_data = load_session(session_file)
    /\ orphans = 0
    /\ due = FALSE
    /\ caller = "none"
    /\ interrupted_at = "none"
    /\ login_trace = <<>>
    /\ stage_report = NoReport
    /\ ExtVarsInit

\* entry of process_daily_batch, called by c
EnterBatch(c) ==
    /\ batches < MaxBatches
    /\ pc' = "setup"
    /\ caller' = c
    /\ prev' = IF proc_batches = 0 THEN NoBatch
               ELSE [ran |-> logged_in = "ok", attempted |-> attempted,
                     results |-> results, start |-> batch_start.processed_books]
    /\ batch_start' = [processed_books |-> processed_books, tracking_file |-> tracking_file]
    /\ logged_in' = "pending"
    /\ books_to_process' = <<>>
    /\ i' = 0
    /\ attempted' = <<>>
    /\ results' = <<>>
    /\ invoked' = <<>>
    /\ login_trace' = <<>>
    /\ proc_batches' = proc_batches + 1
    /\ batches' = batches + 1
    /\ UNCHANGED <<driver, books_per_day, processed_books, tracking_file,
                   succeeded, loaded_kind, restarts, calls, stage_report,
                   session_file, session_data, orphans, due, interrupted_at>>
    /\ UNCHANGED extvars

\* run_scheduler: "Run one batch immediately for testing"
RunTestBatch ==
    /\ pc = "idle"
    /\ EnterBatch("startup")

\* schedule.run_pending() in the loop: runs the job when it is due
Poll ==
    /\ pc = "poll"
    /\ IF JobDue(due)
       THEN EnterBatch("job")
       ELSE /\ pc' = "sleep"
            /\ UNCHANGED <<driver, logged_in, books_per_day, processed_books,
                           tracking_file, books_to_process, i, attempted,
                           results, invoked, succeeded, prev, batch_start,
                           loaded_kind, proc_batches, batches, restarts, calls,
                           schedvars, extvars>>

\* time.sleep(60) in the loop
Sleep ==
    /\ pc = "sleep"
    /\ pc' = "poll"
    /\ UNCHANGED <<driver, logged_in, books_per_day, processed_books,
                   tracking_file, books_to_process, i, attempted, results,
                   invoked, succeeded, prev, batch_start, loaded_kind,
                   proc_batches, batches, restarts, calls, schedvars>>
    /\ UNCHANGED extvars

\* the clock passes the configured upload time while the process runs
Tick ==
    /\ pc \notin {"stopped", "dead"}
    /\ ~due
    /\ due' = TRUE
    /\ UNCHANGED <<pc, driver, logged_in, books_per_day, processed_books,
                   tracking_file, books_to_process, i, attempted, results,
                   invoked, succeeded, prev, batch_start, loaded_kind,
                   proc_batches, batches, restarts, calls, stage_report,
                   session_file, session_data, orphans, caller, interrupted_at,
                   login_trace>>
    /\ UNCHANGED extvars

\* self.driver = self.setup_browser(): the assignment happens only when
\* setup_browser returns; when it raises after webdriver.Chrome(...) returned
\* (execute_script, the timeouts, getint) the started browser is referenced by
\* nothing
SchedSetupBrowser ==
    /\ pc = "setup"
    /\ \E outcome \in SetupOutcomes :
          /\ driver' = IF outcome = "ok" THEN "open" ELSE driver
          /\ orphans' = IF outcome = "raised_after_start" THEN orphans + 1 ELSE orphans
          /\ pc' = IF outcome = "ok" THEN "login" ELSE "finally"
    /\ UNCHANGED <<logged_in, books_per_day, processed_books, tracking_file,
                   books_to_process, i, attempted, results, invoked, succeeded,
                   prev, batch_start, loaded_kind, proc_batches, batches,
                   restarts, calls, stage_report, session_file, session_data,
                   due, caller, interrupted_at, login_trace>>
    /\ UNCHANGED extvars

\* login_to_kdp up to restore_session: the credentials are configured (main
\* checked them), driver.get(base_url) loads the page or raises
LoginStart ==
    /\ pc = "login"
    /\ \E loaded \in BOOLEAN :
          /\ pc' = IF loaded THEN "restore" ELSE AfterLogin(FALSE)
          /\ logged_in' = IF loaded THEN logged_in ELSE "failed"
    /\ UNCHANGED <<driver, books_per_day, processed_books, tracking_file,
                   books_to_process, i, attempted, results, invoked, succeeded,
                   prev, batch_start, loaded_kind, proc_batches, batches,
                   restarts, calls, schedvars>>
    /\ UNCHANGED extvars

\* if self.session_manager.restore_session(self.driver):
RestoreSession ==
    /\ pc = "restore"
    /\ \E browser_ok \in BOOLEAN :
          LET restored == restore_session(session_data, browser_ok)
          IN  /\ login_trace' = Append(login_trace,
                                       [step |-> "restore", ok |-> restored,
                                        from |-> session_data])
              /\ pc' = AfterRestore(restored)
    /\ UNCHANGED <<driver, logged_in, books_per_day, processed_books,
                   tracking_file, books_to_process, i, attempted, results,
                   invoked, succeeded, prev, batch_start, loaded_kind,
                   proc_batches, batches, restarts, calls, stage_report,
                   session_file, session_data, orphans, due, caller,
                   interrupted_at>>
    /\ UNCHANGED extvars

\* if self.is_logged_in(): return True   (after a restore that returned True);
\* is_logged_in catches TimeoutException only, anything else it raises is
\* caught by login_to_kdp, which returns False
CheckRestored ==
    /\ pc = "check_restored"
    /\ \E answer \in {"yes", "no", "raises"} :
          /\ login_trace' = Append(login_trace,
                                   [step |-> "is_logged_in", ok |-> answer = "yes",
                                    from |-> session_data])
          /\ pc' = CASE answer = "yes" -> AfterLogin(TRUE)
                     [] answer = "no" -> "credentials"
                     [] answer = "raises" -> AfterLogin(FALSE)
          /\ logged_in' = CASE answer = "yes" -> "ok"
                            [] answer = "no" -> logged_in
                            [] answer = "raises" -> "failed"
    /\ UNCHANGED <<driver, books_per_day, processed_books, tracking_file,
                   books_to_process, i, attempted, results, invoked, succeeded,
                   prev, batch_start, loaded_kind, proc_batches, batches,
                   restarts, calls, stage_report, session_file, session_data,
                   orphans, due, caller, interrupted_at>>
    /\ UNCHANGED extvars

\* the credential login: sign-in button, e-mail, continue, password, submit,
\* then is_logged_in; on success save_session and return True, else False
CredentialLogin ==
    /\ pc = "credentials"
    /\ \E ok \in BOOLEAN, outcome \in SaveOutcomes :
          /\ login_trace' = Append(login_trace,
                                   [step |-> "credentials", ok |-> ok,
                                    from |-> session_data])
          /\ logged_in' = IF ok THEN "ok" ELSE "failed"
          /\ pc' = AfterLogin(ok)
          /\ session_file' =
                IF ok THEN save_session(driver, session_file, proc_batches,
                                        TRUE, outcome)
                ELSE session_file
    /\ UNCHANGED <<driver, books_per_day, processed_books, tracking_file,
                   books_to_process, i, attempted, results, invoked, succeeded,
                   prev, batch_start, loaded_kind, proc_batches, batches,
                   restarts, calls, stage_report, session_data, orphans, due,
                   caller, interrupted_at>>
    /\ UNCHANGED extvars

\* finally: if self.driver: save_session(self.driver); self.driver.quit(),
\* then the return to the caller: run_scheduler enters its loop after the
\* test batch, run_pending records the run of the job and computes its next
\* time; a KeyboardInterrupt on its way up ends run_scheduler
SchedFinally ==
    /\ pc = "finally"
    /\ \E outcome \in SaveOutcomes :
          session_file' =
              IF driver = "none" THEN session_file
              ELSE save_session(driver, session_file, proc_batches,
                                login_trace # <<>>, outcome)
    /\ driver' = IF driver = "none" THEN "none" ELSE "quit"
    /\ pc' = IF interrupted_at # "none" THEN "stopped"
             ELSE IF caller = "startup" THEN "poll" ELSE "sleep"
    /\ due' = IF interrupted_at = "none" /\ caller = "job" THEN FALSE ELSE due
    /\ UNCHANGED <<logged_in, books_per_day, processed_books, tracking_file,
                   books_to_process, i, attempted, results, invoked, succeeded,
                   prev, batch_start, loaded_kind, proc_batches, batches,
                   restarts, calls, stage_report, session_data, orphans, caller,
                   interrupted_at, login_trace>>
    /\ UNCHANGED extvars

\* the operator presses Ctrl+C: KeyboardInterrupt is raised in the statement
\* that is running.  No `except Exception` clause catches it: inside a batch
\* it leaves the stage, process_single_book and the try block of
\* process_daily_batch, whose finally clause runs; raised inside the finally
\* clause it leaves that too; in the loop of run_scheduler it is caught by
\* `except KeyboardInterrupt`; before the test batch it leaves run_scheduler
KeyboardInterrupt ==
    /\ pc \notin {"stopped", "dead"}
    /\ interrupted_at = "none"
    /\ interrupted_at' = pc
    /\ pc' = IF pc \in Polling \cup {"idle", "finally"} THEN "stopped" ELSE "finally"
    /\ UNCHANGED <<driver, logged_in, books_per_day, processed_books,
                   tracking_file, books_to_process, i, attempted, results,
                   invoked, succeeded, prev, batch_start, loaded_kind,
                   proc_batches, batches, restarts, calls, stage_report,
                   session_file, session_data, orphans, due, caller,
                   login_trace>>
    /\ UNCHANGED extvars

\* main() is run again after the scheduler stopped or the idle process was
\* killed: the constructors load the tracking file and the session file
SchedRestart ==
    /\ pc \in Polling \cup {"stopped"}
    /\ restarts < MaxRestarts
    /\ restarts' = restarts + 1
    /\ Constructed(tracking_file)
    /\ session_data' = load_session(session_file)
    /\ orphans' = 0
    /\ due' = FALSE
    /\ caller' = "none"
    /\ interrupted_at' = "none"
    /\ login_trace' = <<>>
    /\ UNCHANGED <<books_per_day, tracking_file, succeeded, batches, calls,
                   stage_report, session_file>>
    /\ UNCHANGED extvars

SchedNext ==
    \/ RunTestBatch
    \/ Poll
    \/ Sleep
    \/ Tick
    \/ SchedSetupBrowser
    \/ LoginStart
    \/ RestoreSession
    \/ CheckRestored
    \/ CredentialLogin
    \/ GetBooks
    \/ BookStart
    \/ NavigateToCreateBook
    \/ FillBookDetails
    \/ UploadBookFiles
    \/ SetPricing
    \/ PublishBook
    \/ MarkProcessed
    \/ LoopTail
    \/ SchedFinally
    \/ KeyboardInterrupt
    \/ SchedRestart

\* batches of one book
SchedInit == SchedInitFor(1)

SchedSpec == SchedInit /\ [][SchedNext]_vars

\* batches of two books
TwoBookInit == SchedInitFor(2)

TwoBookSchedSpec == TwoBookInit /\ [][SchedNext]_vars

SchedTypeOK ==
    /\ pc \in {"idle", "setup", "login", "restore", "check_restored", "credentials",
               "queue", "book_start", "mark", "book_end", "finally", "poll", "sleep",
               "stopped"} \cup StageSet
    /\ driver \in {"none", "open", "quit"}
    /\ logged_in \in {"pending", "ok", "failed"}
    /\ session_file.kind \in {"missing", "corrupt", "valid"}
    /\ orphans \in 0 .. MaxBatches
    /\ due \in BOOLEAN
    /\ caller \in {"none", "startup", "job"}

\* process_daily_batch has returned, or KeyboardInterrupt has left it
BatchReturned == pc \in Polling \cup {"stopped"} /\ proc_batches >= 1

\* ----------------------------------------------------------------- C14
\* C14: when process_daily_batch has returned (or an exception has left it),
\* every browser the batch started has been quit: self.driver does not
\* reference an open browser and no started browser is left unreferenced.
C14_BrowserClosedWhenBatchReturns ==
    BatchReturned => (driver # "open" /\ orphans = 0)

\* ----------------------------------------------------------------- C15
\* C15: when the session file holds a session with cookies that an earlier
\* batch persisted, the state a batch's login tries to resume from is that
\* session, whether the earlier batch ran in an earlier process or in this
\* one.
C15_RestoreUsesPersistedSession ==
    (pc = "restore" /\ session_file.kind = "valid" /\ session_file.cookies) =>
        session_data = load_session(session_file)

\* ----------------------------------------------------------------- C16
\* C16: in every login a credential step is taken only after restore_session
\* was called, it is the last step of the login, and a restore that returned
\* False (nothing to restore, or the browser raised) does not end the login:
\* the credential login is the step that follows it.
C16_RestoreBeforeCredentials ==
    /\ \A k \in 1 .. Len(login_trace) :
          /\ login_trace[k].step = "credentials" =>
                /\ k > 1
                /\ k = Len(login_trace)
                /\ login_trace[1].step = "restore"
          /\ (login_trace[k].step = "restore" /\ ~login_trace[k].ok) =>
                IF k < Len(login_trace)
                THEN login_trace[k + 1].step = "credentials"
                ELSE pc = "credentials" \/ interrupted_at = "credentials"
    /\ pc \in {"check_restored", "credentials"} =>
          /\ login_trace # <<>>
          /\ login_trace[1].step = "restore"
    /\ logged_in = "failed" =>
          (login_trace = <<>> \/ login_trace[Len(login_trace)].step # "restore")

C16_Witness ==
    /\ logged_in = "ok"
    /\ Len(login_trace) = 2
    /\ login_trace[1] = [step |-> "restore", ok |-> FALSE,
                         from |-> [saved_in |-> 1, cookies |-> TRUE]]
    /\ login_trace[2].step = "credentials"
    /\ login_trace[2].ok

\* ----------------------------------------------------------------- C17
\* C17: a KeyboardInterrupt takes effect only while the scheduler polls,
\* before a batch starts, or between two books, never inside a book's
\* pipeline; when the scheduler has stopped every book that was started has
\* returned success or failure.
C17_InterruptOnlyBetweenBooks ==
    /\ interrupted_at \notin StageSet \cup {"mark"}
    /\ pc = "stopped" => Len(results) = Len(attempted)

\* ----------------------------------------------------------------- C18
\* C18: run_scheduler runs one batch right after construction, before it
\* polls; a later batch starts only from run_pending and only when the daily
\* job is due, and a finished job is not due again until the upload time
\* comes again; when the job is not due the loop sleeps and polls again; a
\* batch starts only when no batch is running; and the loop ends only by
\* KeyboardInterrupt.
C18_OneBatchThenDaily ==
    /\ [](/\ pc \in Polling => proc_batches >= 1
          /\ pc = "idle" => proc_batches = 0
          /\ pc = "stopped" => interrupted_at # "none")
    /\ [][/\ proc_batches' = proc_batches + 1 =>
                /\ \/ pc = "idle" /\ proc_batches = 0 /\ caller' = "startup"
                   \/ pc = "poll" /\ due /\ caller' = "job"
                /\ pc' = "setup"
          /\ (pc = "idle" /\ pc' \notin {"idle", "stopped"}) => pc' = "setup"
          /\ (pc = "poll" /\ ~due /\ pc' \notin {"poll", "stopped", "idle"}) =>
                pc' = "sleep"
          /\ (pc = "sleep" /\ pc' \notin {"sleep", "stopped", "idle"}) => pc' = "poll"
          /\ (pc = "finally" /\ pc' = "sleep") => (caller = "job" /\ ~due')]_vars

C18_Witness ==
    /\ proc_batches = 2
    /\ caller = "job"
    /\ pc = "poll"
    /\ ~due
    /\ interrupted_at = "none"

\* ======================================================================
\* The upload and publish stages in detail (upload_book_files,
\* publish_book): what the page and the prepared files offer is the
\* environment, what the stage returns is computed from it as the code does.
\* The rest of the batch is the batch model.
\* ======================================================================
\* a lookup of an element: found, absent (TimeoutException or
\* NoSuchElementException, which the lookups catch), or another exception
LookupResults == {"found", "not_found", "error"}

\* what upload_book_files meets: the Content page check, whether
\* get_book_file_path returns an existing file, the lookup of the file input
\* and whether send_keys raises, for the cover and for the manuscript
UploadEnvs ==
    [page : LookupResults,
     cover_file : BOOLEAN, cover_field : LookupResults, cover_send_ok : BOOLEAN,
     epub_file : BOOLEAN, epub_field : LookupResults, epub_send_ok : BOOLEAN]

\* the upload of one file: `if path and os.path.exists(path)`, the loop over
\* the selectors catching NoSuchElementException, `if upload: send_keys(path)
\* else: warning`, `else: warning`
upload_one(file_available, field, send_ok) ==
    IF ~file_available THEN "no_file"
    ELSE IF field = "not_found" THEN "no_field"
    ELSE IF field = "error" THEN "raised"
    ELSE IF send_ok THEN "uploaded" ELSE "raised"

\* upload_book_files: `return True` at the end of the try block, `return
\* False` in the except clause
upload_returns_strict(page, cover, manuscript) ==
    page # "error" /\ cover = "uploaded" /\ manuscript = "uploaded"

upload_returns(page, cover, manuscript) ==
    page # "error" /\ cover # "raised" /\ manuscript # "raised"

\* upload_book_files: the page check, the cover, the manuscript, the click on
\* Save and Continue (whose exceptions are all swallowed), the return value
upload_book_files(env) ==
    LET cover == IF env.page = "error" THEN "not_reached"
                 ELSE upload_one(env.cover_file, env.cover_field, env.cover_send_ok)
        manuscript == IF env.page = "error" \/ cover = "raised" THEN "not_reached"
                      ELSE upload_one(env.epub_file, env.epub_field, env.epub_send_ok)
    IN  [stage |-> "upload",
         ok |-> upload_returns(env.page, cover, manuscript),
         page |-> env.page,
         cover |-> cover,
         manuscript |-> manuscript,
         warnings |->
            (IF env.page = "not_found" THEN {"Could not confirm Content step page"}
             ELSE {}) \cup
            (IF cover = "no_file" THEN {"Cover file not found or not available"}
             ELSE {}) \cup
            (IF cover = "no_field" THEN {"Could not find cover upload field"}
             ELSE {}) \cup
            (IF manuscript = "no_file" THEN {"EPUB file not found or not available"}
             ELSE {}) \cup
            (IF manuscript = "no_field" THEN {"Could not find manuscript upload field"}
             ELSE {})]

\* what publish_book meets: the publish button (found by the wait, found by
\* find_element after scrolling, not found, or an exception), the click, the
\* confirmation dialog (a button found and clicked, none, or an exception)
\* and the success indicators (one found, none, or an exception)
PublishEnvs ==
    [button : {"found", "after_scroll", "not_found", "error"},
     click_ok : BOOLEAN,
     confirm : {"clicked", "none", "error"},
     success : LookupResults]

\* publish_book: `return False` when the button is not found and in the
\* except clause, `return True` after the success check whatever it found
publish_returns_confirmed(clicked, raised, success_found) ==
    clicked /\ ~raised /\ success_found

publish_returns(clicked, raised, success_found) == clicked /\ ~raised

publish_book(env) ==
    LET button_found == env.button \in {"found", "after_scroll"}
        clicked == button_found /\ env.click_ok
        raised == \/ env.button = "error"
                  \/ button_found /\ ~env.click_ok
                  \/ clicked /\ env.confirm = "error"
                  \/ clicked /\ env.confirm # "error" /\ env.success = "error"
        success_found == clicked /\ ~raised /\ env.success = "found"
    IN  [stage |-> "publish",
         ok |-> publish_returns(clicked, raised, success_found),
         clicked |-> clicked,
         raised |-> raised,
         dialog_confirmed |-> clicked /\ env.confirm = "clicked",
         success_found |-> success_found,
         warnings |->
            IF clicked /\ ~raised /\ ~success_found
            THEN {"Could not confirm publication success, but no errors"}
            ELSE {}]

\* the auxiliary variables the detailed stages leave alone
auxButReport == <<calls, session_file, session_data, orphans, due, caller,
                  interrupted_at, login_trace, extvars>>

\* if not self.upload_book_files(book_data): return False
UploadFilesDetailed ==
    /\ \E env \in UploadEnvs :
          /\ StageReturns("upload", upload_book_files(env).ok)
          /\ stage_report' = [batch |-> proc_batches, book |-> CurrentBook,
                              report |-> upload_book_files(env)]
    /\ UNCHANGED auxButReport

\* if not self.publish_book(): return False
PublishDetailed ==
    /\ \E env \in PublishEnvs :
          /\ StageReturns("publish", publish_book(env).ok)
          /\ stage_report' = [batch |-> proc_batches, book |-> CurrentBook,
                              report |-> publish_book(env)]
    /\ UNCHANGED auxButReport

\* a first start with batches of one or two books
StagesInit ==
    /\ Init
    /\ tracking_file = MissingFile
    /\ books_per_day \in 1 .. 2

StagesNext ==
    \/ StartBatch
    \/ SetupBrowser
    \/ Login
    \/ GetBooks
    \/ BookStart
    \/ NavigateToCreateBook
    \/ FillBookDetails
    \/ UploadFilesDetailed
    \/ SetPricing
    \/ PublishDetailed
    \/ MarkProcessed
    \/ LoopTail
    \/ Finally

StagesSpec == StagesInit /\ [][StagesNext]_vars

\* the report is the one of the book attempted last in the running batch
ReportOfCurrentBook ==
    /\ attempted # <<>>
    /\ stage_report.batch = proc_batches
    /\ stage_report.book = attempted[Len(attempted)]

\* ----------------------------------------------------------------- C19
\* C19: when upload_book_files met a cover or a manuscript that is missing,
\* or did not find an upload field, and nothing raised, it logged a warning
\* and returned success, and the stage that runs next for the book is
\* SetPrice.
C19_MissingFileDoesNotAbortUpload ==
    LET r == stage_report.report
    IN  (/\ ReportOfCurrentBook
         /\ r.stage = "upload"
         /\ {r.cover, r.manuscript} \cap {"no_file", "no_field"} # {}
         /\ "raised" \notin {r.cover, r.manuscript}
         /\ r.page # "error") =>
            /\ r.ok
            /\ r.warnings # {}
            /\ Len(invoked) >= 3
            /\ invoked[3] = [stage |-> "upload", ok |-> TRUE]
            /\ Len(invoked) = 3 => pc = "pricing"
            /\ Len(invoked) >= 4 => invoked[4].stage = "pricing"

C19_Witness ==
    /\ ReportOfCurrentBook
    /\ stage_report.report.stage = "upload"
    /\ stage_report.report.cover = "no_file"
    /\ stage_report.report.manuscript = "no_field"
    /\ pc = "publish"
    /\ invoked[4] = [stage |-> "pricing", ok |-> TRUE]

\* ----------------------------------------------------------------- C20
\* C20: when publish_book clicked the publish button and then met no
\* confirmation dialog and no success indicator, and nothing raised, it
\* logged the warning and returned success, and the book is marked done: the
\* next statement adds it to the ledger, and from then on it is in it.
C20_UnconfirmedPublishIsSuccess ==
    LET r == stage_report.report
    IN  (/\ ReportOfCurrentBook
         /\ r.stage = "publish"
         /\ r.clicked
         /\ ~r.raised
         /\ ~r.dialog_confirmed
         /\ ~r.success_found) =>
            /\ r.ok
            /\ r.warnings = {"Could not confirm publication success, but no errors"}
            /\ invoked[5] = [stage |-> "publish", ok |-> TRUE]
            /\ \/ pc = "mark"
               \/ /\ DirName(stage_report.book) \in processed_books
                  /\ results[Len(results)] = TRUE

C20_Witness ==
    /\ ReportOfCurrentBook
    /\ stage_report.report.stage = "publish"
    /\ stage_report.report.clicked
    /\ ~stage_report.report.dialog_confirmed
    /\ ~stage_report.report.success_found
    /\ pc = "book_end"
    /\ DirName(stage_report.book) \in PersistedDirs

\* ======================================================================
\* The navigation and details stages in detail (navigate_to_create_book,
\* fill_book_details): what the page offers is the environment, what the
\* stage returns is computed from it as the code does.
\* ======================================================================
\* what navigate_to_create_book meets: the Create New button (found by a
\* wait, every wait timed out, or another exception), the click on it or the
\* direct driver.get that replaces it, the Create eBook button, the click on
\* it, and the indicators of the book form
NavigateEnvs ==
    [create : LookupResults, open_ok : BOOLEAN,
     ebook : LookupResults, ebook_click_ok : BOOLEAN,
     form : LookupResults]

\* every element is found and every click succeeds
NavigateCooperative(env) ==
    /\ env.create = "found"
    /\ env.open_ok
    /\ env.ebook = "found"
    /\ env.ebook_click_ok
    /\ env.form = "found"

\* navigate_to_create_book: `return False` when the Create eBook button or
\* the form is not found and in the except clause, `return True` when the
\* form is found
navigate_to_create_book(env) ==
    LET raised_open == env.create = "error" \/ ~env.open_ok
        ebook == IF raised_open THEN "not_reached" ELSE env.ebook
        raised_ebook == ebook = "error" \/ (ebook = "found" /\ ~env.ebook_click_ok)
        form == IF ebook = "found" /\ ~raised_ebook THEN env.form ELSE "not_reached"
    IN  [stage |-> "navigate",
         ok |-> form = "found",
         raised |-> raised_open \/ raised_ebook \/ form = "error",
         timed_out |-> "not_found" \in {env.create, ebook, form}]

\* the methods `self.<name>(...)` can resolve to: those the class
\* KDPAutomator defines
KDPAutomatorMethods ==
    {"load_processed_books_tracking", "save_processed_books_tracking",
     "load_books_data", "setup_browser", "login_to_kdp", "is_logged_in",
     "navigate_to_create_book", "debug_page_elements", "wait_for_form_ready",
     "fill_book_details", "upload_book_files", "set_pricing", "publish_book",
     "get_book_file_path", "clean_file_path", "process_single_book",
     "process_daily_batch", "get_next_books_to_process", "run_scheduler"}

\* a call self.<name>(...): an attribute the class does not define raises
\* AttributeError before anything runs
call_method(name) ==
    IF name \in KDPAutomatorMethods THEN "returned" ELSE "AttributeError"

\* what fill_book_details meets: the title field (typed, safe_type returned
\* False, or the wait raised), the optional fields of steps 0 and 2 to 7
\* (whose exceptions are logged and dropped), the categories button (enabled,
\* disabled, or never present), the click on it, the category error message
\* looked up in step 9 (absent, displayed, or the lookup raised) and the
\* Save and Continue button (clicked, clicked through the alternative
\* selector, or neither)
DetailsEnvs ==
    [title : {"typed", "type_failed", "not_found"},
     optional_ok : BOOLEAN,
     cat_button : {"enabled", "disabled", "not_found"},
     cat_click_ok : BOOLEAN,
     verify : {"no_error", "error_shown", "raised"},
     save : {"clicked", "alt_clicked", "failed"}]

\* every element is found, every click, typing and save succeeds, and the
\* page shows no category error
DetailsCooperative(env) ==
    /\ env.title = "typed"
    /\ env.optional_ok
    /\ env.cat_button = "enabled"
    /\ env.cat_click_ok
    /\ env.verify = "no_error"
    /\ env.save = "clicked"

\* step 8: wait for the button; click it (or enable it and click through
\* JavaScript); self.select_category_by_bisac(bisac_code) (the prepared
\* descriptor always holds a bisac string); self.save_category_selection().
\* "saved" when every statement ran, "raised" when one raised
category_selection(env) ==
    IF env.cat_button = "not_found" THEN "raised"
    ELSE IF ~env.cat_click_ok THEN "raised"
    ELSE IF call_method("select_category_by_bisac") # "returned" THEN "raised"
    ELSE IF call_method("save_category_selection") # "returned" THEN "raised"
    ELSE "saved"

\* step 8: both except clauses log an error and `return False`
AfterCategories_soft(outcome) == "verify"

AfterCategories(outcome) == IF outcome = "saved" THEN "verify" ELSE "return_false"

\* step 9: the error message is displayed -> self.handle_categories_emergency
\* (book_data), `return False` when that raises; an exception of the lookup
\* itself is logged as a warning and the function goes on
category_verification(env) ==
    CASE env.verify = "no_error" -> "save"
      [] env.verify = "raised" -> "save"
      [] env.verify = "error_shown" ->
            IF call_method("handle_categories_emergency") = "returned"
            THEN "save" ELSE "return_false"

\* fill_book_details: the title (step 1), the categories (step 8), their
\* verification (step 9), Save and Continue (step 10), the return value
fill_book_details(env) ==
    LET title_ok == env.title = "typed"
        category == IF title_ok THEN category_selection(env) ELSE "not_reached"
        verified == IF title_ok /\ AfterCategories(category) = "verify"
                    THEN category_verification(env) ELSE "return_false"
        advanced == verified = "save" /\ env.save # "failed"
    IN  [stage |-> "details",
         ok |-> advanced,
         title |-> env.title,
         category |-> category,
         category_error |-> title_ok /\ env.verify = "error_shown",
         advanced |-> advanced]

\* if not self.navigate_to_create_book(): return False
NavigateDetailed ==
    /\ \E env \in NavigateEnvs :
          /\ StageReturns("navigate", navigate_to_create_book(env).ok)
          /\ stage_report' = [batch |-> proc_batches, book |-> CurrentBook,
                              report |-> navigate_to_create_book(env)]
          /\ ui_log' = [batch |-> proc_batches, book |-> CurrentBook,
                        cooperative |-> NavigateCooperative(env)]
    /\ UNCHANGED <<calls, session_file, session_data, orphans, due, caller,
                   interrupted_at, login_trace, delayvars, catvars, prepvars,
                   ordvars>>

\* if not self.fill_book_details(book_data): return False
FillDetailsDetailed ==
    /\ \E env \in DetailsEnvs :
          /\ StageReturns("details", fill_book_details(env).ok)
          /\ stage_report' = [batch |-> proc_batches, book |-> CurrentBook,
                              report |-> fill_book_details(env)]
          /\ ui_log' = [ui_log EXCEPT
                           !.cooperative = @ /\ DetailsCooperative(env)]
    /\ UNCHANGED <<calls, session_file, session_data, orphans, due, caller,
                   interrupted_at, login_trace, delayvars, catvars, prepvars,
                   ordvars>>

\* a first start with batches of one or two books
DetailsInit == StagesInit

\* no behaviour of this specification reaches the upload, pricing and publish
\* stages or the ledger update, so they are not among its steps
DetailsNext ==
    \/ StartBatch
    \/ SetupBrowser
    \/ Login
    \/ GetBooks
    \/ BookStart
    \/ NavigateDetailed
    \/ FillDetailsDetailed
    \/ LoopTail
    \/ Finally

DetailsSpec == DetailsInit /\ [][DetailsNext]_vars

\* with the steps that follow the details stage added: used to show that
\* they are never taken
FullPipelineNext ==
    \/ DetailsNext
    \/ UploadFilesDetailed
    \/ SetPricing
    \/ PublishDetailed
    \/ MarkProcessed

FullPipelineSpec == DetailsInit /\ [][FullPipelineNext]_vars

\* fill_book_details never returns True: no book goes past the details stage
DetailsNeverSucceeds ==
    /\ pc \notin {"upload", "pricing", "publish", "mark"}
    /\ processed_books = {}

\* the log is the one of the book attempted last in the running batch
LogOfCurrentBook ==
    /\ attempted # <<>>
    /\ ui_log.batch = proc_batches
    /\ ui_log.book = attempted[Len(attempted)]

\* ----------------------------------------------------------------- C21
\* C21: when fill_book_details ran without the category selection having
\* been saved, or with the category error message displayed, it returned
\* False and did not click Save and Continue, and no later stage was called
\* for the book.
C21_NoCategoryIsHardFailure ==
    LET r == stage_report.report
    IN  (/\ ReportOfCurrentBook
         /\ r.stage = "details"
         /\ (r.category # "saved" \/ r.category_error)) =>
            /\ ~r.ok
            /\ ~r.advanced
            /\ invoked = <<[stage |-> "navigate", ok |-> TRUE],
                           [stage |-> "details", ok |-> FALSE]>>
            /\ pc \notin StageSet \cup {"mark"}
            /\ results[Len(results)] = FALSE

C21_Witness ==
    /\ ReportOfCurrentBook
    /\ stage_report.report.stage = "details"
    /\ stage_report.report.title = "typed"
    /\ stage_report.report.category = "raised"
    /\ LogOfCurrentBook
    /\ ui_log.cooperative
    /\ pc = "book_end"
    /\ results[Len(results)] = FALSE

\* ----------------------------------------------------------------- C22
\* C22: a stage does not report success after one of its waits timed out:
\* when every wait of upload_book_files for the Content page ran into its
\* timeout, the stage returned False.
C22_TimedOutWaitFailsStage ==
    LET r == stage_report.report
    IN  (/\ ReportOfCurrentBook
         /\ r.stage = "upload"
         /\ r.page = "not_found") =>
            /\ ~r.ok
            /\ invoked[3] = [stage |-> "upload", ok |-> FALSE]

\* ----------------------------------------------------------------- C25
\* C25: when every UI operation of every stage called for a book succeeded
\* and process_single_book has returned, it returned True and the book's
\* directory name is in the ledger.
C25_CooperativeSystemReachesDone ==
    (/\ LogOfCurrentBook
     /\ ui_log.cooperative
     /\ logged_in = "ok"
     /\ Len(results) = Len(attempted)) =>
        /\ results[Len(results)] = TRUE
        /\ DirName(ui_log.book) \in processed_books

\* ======================================================================
\* The preparation process (src/kdp_preparation.py): KDPFileManager reads
\* the catalog file, and each batch prepares the next three rows that this
\* process has not prepared yet: a directory, copies of the referenced files
\* and the descriptor metadata.json per row, then a batch summary.
\* ======================================================================
PrepRows == 4        \* rows of the larger catalogs tried

\* self.get_next_books_to_process(3) in process_daily_batch
PrepBatchSize == 3

\* files_to_copy: the roles, in the order of the dictionary
Roles == <<"ebook_cover", "print_cover", "epub", "docx">>

RoleSet == {Roles[k] : k \in 1 .. Len(Roles)}

\* what a file cell of a row holds: the path of a file that exists and can
\* be copied ("ok"), the path of a file that does not exist ("absent"), the
\* path of a file whose copy raises ("copy_fails"), or nothing ("empty":
\* pandas reads an empty cell as the float NaN)
CellStates == {"ok", "absent", "copy_fails", "empty"}

\* a row of books_df: its four file cells, and whether its four price cells
\* hold numbers (an empty price cell is NaN, which convert_to_json_safe
\* turns into None)
Rows == [files : [RoleSet -> CellStates], prices_ok : BOOLEAN]

AllOk == [r \in RoleSet |-> "ok"]

GoodRow == [files |-> AllOk, prices_ok |-> TRUE]

BadPriceRow == [files |-> AllOk, prices_ok |-> FALSE]

NoPrintCoverRow == [files |-> [AllOk EXCEPT !["print_cover"] = "empty"], prices_ok |-> TRUE]

\* clean_file_path: a string is stripped, anything else (NaN) is returned
\* as it is; then `if source_path and os.path.exists(source_path)`: NaN is
\* true and os.path.exists(NaN) raises TypeError, a path that does not exist
\* gives False; then shutil.copy2 inside try/except
copy_one(cell) ==
    CASE cell = "ok" -> "copied"
      [] cell = "absent" -> "skipped"
      [] cell = "copy_fails" -> "skipped"
      [] cell = "empty" -> "raised"

\* the loop `for file_type, source_path in files_to_copy.items()` from role k
\* on: the roles copied so far, and whether a statement raised
RECURSIVE copy_files(_, _, _)
copy_files(row, k, copied) ==
    IF k > Len(Roles) THEN [raised |-> FALSE, copied |-> copied]
    ELSE CASE copy_one(row.files[Roles[k]]) = "copied" ->
                 copy_files(row, k + 1, copied \cup {Roles[k]})
           [] copy_one(row.files[Roles[k]]) = "skipped" ->
                 copy_files(row, k + 1, copied)
           [] copy_one(row.files[Roles[k]]) = "raised" ->
                 [raised |-> TRUE, copied |-> copied]

NoDescriptor == [written |-> FALSE, files |-> {}]

\* prepare_book_files: mkdir, the copies, the metadata dictionary (whose
\* price entries divide by 100: TypeError on None), json.dump.  Nothing in
\* the function catches what the cell test or the division raises.
prepare_book_files(row) ==
    LET c == copy_files(row, 1, {})
    IN  IF c.raised THEN [raised |-> TRUE, descriptor |-> NoDescriptor]
        ELSE IF ~row.prices_ok THEN [raised |-> TRUE, descriptor |-> NoDescriptor]
        ELSE [raised |-> FALSE,
              descriptor |-> [written |-> TRUE, files |-> c.copied]]

\* KDPFileManager.get_next_books_to_process(count): the first count row
\* indices not in self.processed_books
RECURSIVE fm_scan(_, _, _, _, _)
fm_scan(n, k, available_books, count, done) ==
    IF k >= n THEN available_books
    ELSE IF k \notin done
         THEN LET appended == Append(available_books, k)
              IN  IF Len(appended) >= count THEN appended
                  ELSE fm_scan(n, k + 1, appended, count, done)
         ELSE fm_scan(n, k + 1, available_books, count, done)

fm_get_next_books_to_process(count, done) ==
    fm_scan(Len(books_df), 0, <<>>, count, done)

\* the catalogs tried: every single row, and every catalog of PrepRows rows
\* that are well formed, lack a price or lack the optional print cover
Catalogs ==
    {<<row>> : row \in Rows} \cup
    [1 .. PrepRows -> {GoodRow, BadPriceRow, NoPrintCoverRow}]

\* the automator does not run
AutomatorIdle ==
    /\ BatchInit
    /\ tracking_file = MissingFile
    /\ books_per_day = 1
    /\ calls = <<>>
    /\ SchedVarsInit
    /\ UiInit
    /\ DelayIdle
    /\ CatIdle
    /\ OrdIdle

\* main(): KDPFileManager(CSV_FILE, OUTPUT_DIR) on an empty output directory
PrepInit ==
    /\ AutomatorIdle
    /\ books_df \in Catalogs
    /\ fm_processed = {}
    /\ prepared = [k \in 1 .. Len(books_df) |-> NoDescriptor]
    /\ summaries = <<>>
    /\ fm_pc = "idle"
    /\ fm_batch = NoFmBatch

automatorvars ==
    <<pc, driver, logged_in, books_per_day, processed_books, tracking_file,
      books_to_process, i, attempted, results, invoked, succeeded, prev,
      batch_start, loaded_kind, proc_batches, batches, calls, schedvars,
      uivars, delayvars, catvars, ordvars>>

\* entry of process_daily_batch (the initial batch of main, or the daily
\* job): the queue, and the return when it is empty
PrepStartBatch ==
    /\ fm_pc = "idle"
    /\ LET queue == fm_get_next_books_to_process(PrepBatchSize, fm_processed)
       IN  /\ queue # <<>>
           /\ fm_batch' = [queue |-> queue, raised_at |-> 0]
           /\ fm_pc' = "book"
    /\ UNCHANGED <<books_df, fm_processed, prepared, summaries, restarts>>
    /\ UNCHANGED automatorvars

\* the row the loop of process_daily_batch is at
PrepPosition == Cardinality(Range(fm_batch.queue) \cap fm_processed) + 1

\* one turn of the loop: prepare_book_files(book_index), then
\* self.processed_books.add(book_index); what prepare_book_files raises is
\* logged and raised again by process_daily_batch (215-217), and nothing in
\* main() or in the scheduler loop catches it: the process ends
PrepareBook ==
    /\ fm_pc = "book"
    /\ LET b == fm_batch.queue[PrepPosition]
           r == prepare_book_files(books_df[b + 1])
       IN  /\ prepared' = IF r.raised THEN prepared
                          ELSE [prepared EXCEPT ![b + 1] = r.descriptor]
           /\ fm_processed' = IF r.raised THEN fm_processed ELSE fm_processed \cup {b}
           /\ fm_batch' = IF r.raised THEN [fm_batch EXCEPT !.raised_at = b + 1]
                          ELSE fm_batch
           /\ fm_pc' = IF r.raised THEN "crashed"
                       ELSE IF PrepPosition = Len(fm_batch.queue) THEN "summary"
                       ELSE "book"
    /\ UNCHANGED <<books_df, summaries, restarts>>
    /\ UNCHANGED automatorvars

\* the batch summary file, then the return to the scheduler loop
WriteSummary ==
    /\ fm_pc = "summary"
    /\ summaries' = Append(summaries,
                           [books_processed |-> fm_batch.queue,
                            remaining_books |-> Len(books_df) - Cardinality(fm_processed)])
    /\ fm_pc' = "idle"
    /\ UNCHANGED <<books_df, fm_processed, prepared, fm_batch, restarts>>
    /\ UNCHANGED automatorvars

\* the preparation script is started again: self.processed_books = set(),
\* the catalog file is read again; the prepared directories stay on disk
PrepRestart ==
    /\ fm_pc \in {"idle", "crashed"}
    /\ restarts < MaxRestarts
    /\ restarts' = restarts + 1
    /\ fm_processed' = {}
    /\ fm_pc' = "idle"
    /\ UNCHANGED <<books_df, prepared, summaries, fm_batch>>
    /\ UNCHANGED automatorvars

PrepNext ==
    \/ PrepStartBatch
    \/ PrepareBook
    \/ WriteSummary
    \/ PrepRestart

PrepSpec == PrepInit /\ [][PrepNext]_vars

\* the last batch has ended, normally or not
PrepBatchEnded == fm_pc \in {"idle", "crashed"} /\ fm_batch.queue # <<>>

\* prepare_book_files reads the row without raising
WellFormed(row) == row.prices_ok /\ \A r \in RoleSet : row.files[r] # "empty"

\* ----------------------------------------------------------------- C23
\* C23: when a preparation batch of two or more rows has ended, every
\* well-formed row of the batch has its descriptor, the batch summary has
\* been written, and the process is still running, so that later batches go
\* on with the rows that follow.
C23_BadRowAbortsOnlyThatRow ==
    (PrepBatchEnded /\ Len(fm_batch.queue) >= 2) =>
        /\ \A b \in Range(fm_batch.queue) :
              WellFormed(books_df[b + 1]) => prepared[b + 1].written
        /\ summaries # <<>>
        /\ summaries[Len(summaries)].books_processed = fm_batch.queue
        /\ fm_pc # "crashed"

\* ----------------------------------------------------------------- C24
\* C24: when prepare_book_files has been called for a row whose price cells
\* are numbers, it wrote a descriptor, and the files map of the descriptor
\* holds exactly the roles whose cell names a file that exists and was
\* copied: a role without a file is left out and nothing else is.
C24_FilesMapOmitsExactlyMissingRoles ==
    \A k \in 1 .. Len(books_df) :
        (/\ books_df[k].prices_ok
         /\ (k - 1 \in fm_processed \/ fm_batch.raised_at = k)) =>
            /\ prepared[k].written
            /\ prepared[k].files = {r \in RoleSet : books_df[k].files[r] = "ok"}

\* ----------------------------------------------------------------- C26
\* C26: a book whose directory name is in the ledger, loaded from the
\* tracking file when the process started or added by an earlier book of
\* this process, is not passed to process_single_book: no book attempted in a
\* batch was in the ledger when the batch started, the book about to be
\* passed and the book in the pipeline are not in the ledger, and no book is
\* attempted twice in a batch.
C26_RecordedBookNotUploadedAgain ==
    /\ \A k \in 1 .. Len(attempted) :
          DirName(attempted[k]) \notin batch_start.processed_books
    /\ \A j, k \in 1 .. Len(attempted) : j # k => attempted[j] # attempted[k]
    /\ pc \in StageSet \cup {"book_start"} => CurrentDir \notin processed_books

C26_Witness ==
    /\ restarts = 1
    /\ loaded_kind = "valid"
    /\ batch_start.processed_books # {}
    /\ batch_start.processed_books = PersistedDirs
    /\ pc = "navigate"
    /\ CurrentBook >= 1

\* ======================================================================
\* The batch model under a daily trigger that never stops: run_scheduler
\* calls process_daily_batch once at startup and then once a day, for ever.
\* The counters of batches stop growing at MaxBatches.
\* ======================================================================
\* entry of process_daily_batch, called by the scheduler loop again and again
DailyBatch ==
    /\ pc = "idle"
    /\ pc' = "setup"
    /\ prev' = IF proc_batches = 0 THEN NoBatch
               ELSE [ran |-> logged_in = "ok", attempted |-> attempted,
                     results |-> results, start |-> batch_start.processed_books]
    /\ batch_start' = [processed_books |-> processed_books, tracking_file |-> tracking_file]
    /\ logged_in' = "pending"
    /\ books_to_process' = <<>>
    /\ i' = 0
    /\ attempted' = <<>>
    /\ results' = <<>>
    /\ invoked' = <<>>
    /\ proc_batches' = Min(proc_batches + 1, MaxBatches)
    /\ batches' = Min(batches + 1, MaxBatches)
    /\ UNCHANGED <<driver, books_per_day, processed_books, tracking_file,
                   succeeded, loaded_kind, restarts>>
    /\ UNCHANGED aux

\* a first start with batches of one or two books
FairInit == StagesInit

FairNext ==
    \/ DailyBatch
    \/ SetupBrowser
    \/ Login
    \/ GetBooks
    \/ BookStart
    \/ NavigateToCreateBook
    \/ FillBookDetails
    \/ UploadBookFiles
    \/ SetPricing
    \/ PublishBook
    \/ MarkProcessed
    \/ LoopTail
    \/ Finally

\* the process keeps running and the trigger keeps firing (weak fairness of
\* every step); the browser keeps starting and the login keeps succeeding
\* (strong fairness of their successful outcomes)
FairSpec ==
    /\ FairInit
    /\ [][FairNext]_vars
    /\ WF_vars(FairNext)
    /\ SF_vars(SetupBrowser /\ driver' = "open")
    /\ SF_vars(Login /\ logged_in' = "ok")

\* the catalog books before b that were not in ledger L
UnprocessedBefore(b, L) == {c \in BookIndices : c < b /\ DirName(c) \notin L}

\* ----------------------------------------------------------------- C27
\* C27 (as stated): every catalog book is eventually passed to
\* process_single_book by some batch, whatever happens to the books before
\* it.
C27_EveryBookEventuallyAttempted ==
    \A b \in BookIndices : <>(pc = "navigate" /\ CurrentBook = b)

\* C27 (amended): a batch attempts a book only when fewer than books_per_day
\* books before it in catalog order were outside the ledger when the batch
\* started; and again and again, as long as a book is outside the ledger,
\* the first such book is passed to process_single_book.
C27_HeadOfQueueIsAttempted ==
    /\ [](\A k \in 1 .. Len(attempted) :
             Cardinality(UnprocessedBefore(attempted[k], batch_start.processed_books))
                < books_per_day)
    /\ []<>(\/ Unprocessed(processed_books) = <<>>
            \/ /\ pc = "navigate"
               /\ CurrentBook = Head(Unprocessed(processed_books)))

C27_Witness ==
    /\ books_per_day = 1
    /\ proc_batches = 2
    /\ prev.ran
    /\ prev.attempted = <<0>>
    /\ prev.results = <<FALSE>>
    /\ pc = "navigate"
    /\ CurrentBook = 0

\* ======================================================================
\* The delay between the books of a batch: random.randint(min_delay,
\* max_delay) and time.sleep(delay) at the end of the loop body of
\* process_daily_batch.  The delays are small numbers here, not seconds.
\* ======================================================================
MaxDelay == 2        \* largest min_delay and max_delay tried

\* the values config.ini can hold for min_delay and max_delay
DelayValues == (0 - 1) .. MaxDelay

\* random.randint(a, b) raises ValueError when a > b
randint_raises(a, b) == a > b

\* random.randint(a, b): any integer from a to b
randint(a, b) == a .. b

\* time.sleep(d): ValueError for a negative d
sleep_raises(d) == d < 0

\* the delays slept in the running batch
DelaysOfBatch == IF delays.batch = proc_batches THEN delays.slept ELSE <<>>

\* the rest of the loop body after process_single_book returned: `if i <
\* len(books_to_process) - 1:` draw the delay and sleep it; what randint or
\* sleep raises is caught by the except clause of process_daily_batch, which
\* ends the batch
LoopTailDelayed ==
    /\ pc = "book_end"
    /\ IF i < Len(books_to_process) - 1
       THEN IF randint_raises(min_delay, max_delay)
            THEN /\ pc' = "finally"
                 /\ UNCHANGED <<i, delays>>
            ELSE \E delay \in randint(min_delay, max_delay) :
                    IF sleep_raises(delay)
                    THEN /\ pc' = "finally"
                         /\ UNCHANGED <<i, delays>>
                    ELSE /\ pc' = AfterBook(results[Len(results)], i,
                                            Len(books_to_process))
                         /\ i' = i + 1
                         /\ delays' = [batch |-> proc_batches,
                                       slept |-> Append(DelaysOfBatch,
                                                        [after |-> CurrentBook,
                                                         delay |-> delay])]
       ELSE /\ pc' = AfterBook(results[Len(results)], i, Len(books_to_process))
            /\ UNCHANGED <<i, delays>>
    /\ UNCHANGED <<driver, logged_in, books_per_day, processed_books,
                   tracking_file, books_to_process, attempted, results, invoked,
                   succeeded, prev, batch_start, loaded_kind, proc_batches,
                   batches, restarts>>
    /\ UNCHANGED <<calls, schedvars, uivars, min_delay, max_delay, catvars,
                   prepvars, ordvars>>

\* a first start with any batch size from 1 on and any pair of delay bounds
DelayInit ==
    /\ BatchInit
    /\ tracking_file = MissingFile
    /\ books_per_day >= 1
    /\ calls = <<>>
    /\ SchedVarsInit
    /\ UiInit
    /\ CatIdle
    /\ PrepIdle
    /\ OrdIdle
    /\ min_delay \in DelayValues
    /\ max_delay \in DelayValues
    /\ delays = NoDelays

DelayNext ==
    \/ StartBatch
    \/ SetupBrowser
    \/ Login
    \/ GetBooks
    \/ BookStart
    \/ NavigateToCreateBook
    \/ FillBookDetails
    \/ UploadBookFiles
    \/ SetPricing
    \/ PublishBook
    \/ MarkProcessed
    \/ LoopTailDelayed
    \/ Finally

DelaySpec == DelayInit /\ [][DelayNext]_vars

\* ----------------------------------------------------------------- C28
\* C28: every delay slept lies between min_delay and max_delay; while the
\* books of a batch are processed, one delay has been slept after each book
\* that is done and is not the last, whatever its result, and none before
\* the first book; when the batch has ended, a queue of k books has had
\* exactly k - 1 delays, the j-th after the j-th book.
C28_DelayBetweenBooks ==
    LET n == Len(books_to_process)
        d == DelaysOfBatch
    IN  /\ \A k \in 1 .. Len(d) :
              min_delay <= d[k].delay /\ d[k].delay <= max_delay
        /\ (pc \in StageSet \cup {"book_start", "mark", "book_end"}) => Len(d) = i
        /\ (logged_in = "ok" /\ pc \in {"finally", "idle"} /\ n >= 1) =>
              /\ Len(d) = n - 1
              /\ \A k \in 1 .. Len(d) : d[k].after = books_to_process[k]

\* ======================================================================
\* The catalog of the automator: self.books_data is filled by
\* load_books_data, called by __init__ and by nothing else, while the
\* preparer goes on adding directories to prepared_books.  disk_books counts
\* the prepared directories on disk, books_loaded is len(self.books_data).
\* ======================================================================

\* len(self.books_data) as get_next_books_to_process reads it: the rows
\* loaded at construction, whatever the directory holds by now
len_books_data_rescanned(loaded, on_disk) == on_disk

len_books_data(loaded, on_disk) == loaded

\* the loop of get_next_books_to_process over range(n), from index k on
RECURSIVE scan_range(_, _, _, _, _)
scan_range(k, available_books, count, pb, n) ==
    IF k >= n THEN available_books
    ELSE IF DirName(k) \notin pb
         THEN LET appended == Append(available_books, k)
              IN  IF Len(appended) >= count THEN appended
                  ELSE scan_range(k + 1, appended, count, pb, n)
         ELSE scan_range(k + 1, available_books, count, pb, n)

\* books_to_process = self.get_next_books_to_process(books_per_day), and the
\* return on an empty list
CatGetBooks ==
    /\ pc = "queue"
    /\ books_to_process' = scan_range(0, <<>>, books_per_day, processed_books,
                                      len_books_data(books_loaded, disk_books))
    /\ pc' = IF books_to_process' = <<>> THEN "finally" ELSE "book_start"
    /\ i' = 0
    /\ UNCHANGED <<driver, logged_in, books_per_day, processed_books,
                   tracking_file, attempted, results, invoked, succeeded, prev,
                   batch_start, loaded_kind, proc_batches, batches, restarts>>
    /\ UNCHANGED aux

\* the preparer, a separate process, prepares the next row of its sheet: one
\* more book_<index>_<title> directory with a metadata.json
PreparationAddsBook ==
    /\ disk_books < NumBooks
    /\ disk_books' = disk_books + 1
    /\ UNCHANGED <<pc, driver, logged_in, books_per_day, processed_books,
                   tracking_file, books_to_process, i, attempted, results,
                   invoked, succeeded, prev, batch_start, loaded_kind,
                   proc_batches, batches, restarts>>
    /\ UNCHANGED <<calls, schedvars, uivars, delayvars, books_loaded, prepvars,
                   ordvars>>

\* the process ends and main() is run again: __init__ calls load_books_data,
\* which reads the directories the disk holds now, and loads the tracking
\* file
CatRestart ==
    /\ pc # "dead"
    /\ restarts < MaxRestarts
    /\ restarts' = restarts + 1
    /\ Constructed(tracking_file)
    /\ books_loaded' = disk_books
    /\ UNCHANGED <<books_per_day, tracking_file, succeeded, batches>>
    /\ UNCHANGED <<calls, schedvars, uivars, delayvars, disk_books, prepvars,
                   ordvars>>

\* a first start that finds one prepared directory or more
CatalogInit ==
    /\ BatchInit
    /\ tracking_file = MissingFile
    /\ books_per_day \in 1 .. 2
    /\ calls = <<>>
    /\ SchedVarsInit
    /\ UiInit
    /\ DelayIdle
    /\ PrepIdle
    /\ OrdIdle
    /\ disk_books \in 1 .. NumBooks
    /\ books_loaded = disk_books

CatalogNext ==
    \/ StartBatch
    \/ SetupBrowser
    \/ Login
    \/ CatGetBooks
    \/ BookStart
    \/ NavigateToCreateBook
    \/ FillBookDetails
    \/ UploadBookFiles
    \/ SetPricing
    \/ PublishBook
    \/ MarkProcessed
    \/ LoopTail
    \/ Finally
    \/ PreparationAddsBook
    \/ CatRestart

CatalogSpec == CatalogInit /\ [][CatalogNext]_vars

\* ----------------------------------------------------------------- C29
\* C29: the catalog the work queue reads is fixed when the automator is
\* constructed.  No step of a batch, of a stage or of the scheduler changes
\* the loaded catalog or the batch size: a step that is not a new
\* construction leaves them as they were, and what it changes of the ledger
\* is the only change to the inputs of the queue.  Every queue holds rows of
\* the loaded catalog only, so a directory prepared after the construction
\* is in no queue of the same process.
C29_CatalogFixedAtConstruction ==
    /\ [][restarts' = restarts =>
             /\ books_loaded' = books_loaded
             /\ books_per_day' = books_per_day]_vars
    /\ [](\A k \in 1 .. Len(books_to_process) : books_to_process[k] < books_loaded)
    /\ [](books_loaded <= disk_books)

\* a later batch of the same process whose queue ran short of books_per_day
\* while the directory holds a book prepared after the construction
C29_Witness ==
    /\ proc_batches = 2
    /\ pc = "book_start"
    /\ disk_books > books_loaded
    /\ Len(books_to_process) < books_per_day

\* ======================================================================
\* Directory names and their order.  The preparer names the directory of
\* row n  f"book_{n:03d}_{title}"  with the title sanitised; the automator
\* sorts the directories by name (str comparison) and takes the position in
\* the sorted list as the book index.  A string is the sequence of the code
\* points of its characters.
\* ======================================================================
MaxRow == 1001       \* largest catalog row tried
MaxTitleLen == 3     \* longest title tried

\* ord(' '), ord('/'), ord('\\'), ord('_'), ord('0'), ord('x')
ord_space == 32
ord_slash == 47
ord_backslash == 92
ord_underscore == 95
ord_zero == 48
ord_x == 120

\* "book_"
book_prefix == <<98, 111, 111, 107, ord_underscore>>

\* the minimum width of the format specification :03d
format_width == 3

RECURSIVE Pow10(_)
Pow10(e) == IF e = 0 THEN 1 ELSE 10 * Pow10(e - 1)

\* the rows tried: those around a change of the number of digits
RowSamples ==
    {n \in 0 .. MaxRow :
        \E e \in 0 .. 3 : n \in {Pow10(e) - 1, Pow10(e), Pow10(e) + 1}}

\* the titles tried: up to MaxTitleLen characters of ' ', '0' and 'x'
TitleSamples ==
    UNION {[1 .. n -> {ord_space, ord_zero, ord_x}] : n \in 1 .. MaxTitleLen}

\* the decimal digits of n, most significant first
RECURSIVE digits(_)
digits(n) == IF n < 10 THEN <<n>> ELSE Append(digits(n \div 10), n % 10)

RECURSIVE zero_pad(_, _)
zero_pad(ds, width) == IF Len(ds) >= width THEN ds ELSE zero_pad(<<0>> \o ds, width)

\* f"{n:03d}": the digits of n, padded with zeros on the left to three
\* characters, and all of them when there are more than three
format_03d(n) ==
    LET ds == zero_pad(digits(n), format_width)
    IN  [k \in 1 .. Len(ds) |-> ord_zero + ds[k]]

\* str(title).replace(' ', '_').replace('/', '_').replace('\\', '_')
sanitise(title) ==
    [k \in 1 .. Len(title) |->
        IF title[k] \in {ord_space, ord_slash, ord_backslash}
        THEN ord_underscore ELSE title[k]]

\* the name of book_dir in prepare_book_files
book_dir_name(book_index, title) ==
    book_prefix \o format_03d(book_index) \o <<ord_underscore>> \o sanitise(title)

\* a < b for two str values: code point by code point, a proper prefix first
RECURSIVE str_lt(_, _)
str_lt(a, b) ==
    IF b = <<>> THEN FALSE
    ELSE IF a = <<>> THEN TRUE
    ELSE IF a[1] # b[1] THEN a[1] < b[1]
    ELSE str_lt(Tail(a), Tail(b))

\* book_dirs.sort(key=lambda x: x.name) for the directories the disk holds
sort_by_name(names) ==
    CHOOSE s \in [1 .. Cardinality(names) -> names] :
        /\ \A k \in 1 .. Cardinality(names) - 1 : str_lt(s[k], s[k + 1])

\* two rows of the sheet, the first above the second, and their titles
OrderInit ==
    /\ BatchInit
    /\ tracking_file = MissingFile
    /\ books_per_day = 1
    /\ calls = <<>>
    /\ SchedVarsInit
    /\ UiInit
    /\ DelayIdle
    /\ CatIdle
    /\ PrepIdle
    /\ \E r1 \in RowSamples, r2 \in RowSamples, t1 \in TitleSamples, t2 \in TitleSamples :
          /\ r1 < r2
          /\ name_case = [phase |-> "sheet", rows |-> <<r1, r2>>,
                          titles |-> <<t1, t2>>, dirs |-> <<>>, book_dirs |-> <<>>]

\* prepare_book_files for the two rows: book_dir.mkdir(exist_ok=True), so a
\* name that exists already is used again
PrepareRows ==
    /\ name_case.phase = "sheet"
    /\ name_case' = [name_case EXCEPT
          !.phase = "prepared",
          !.dirs = [k \in 1 .. 2 |->
                       book_dir_name(name_case.rows[k], name_case.titles[k])]]
    /\ UNCHANGED <<pc, driver, logged_in, books_per_day, processed_books,
                   tracking_file, books_to_process, i, attempted, results,
                   invoked, succeeded, prev, batch_start, loaded_kind,
                   proc_batches, batches, restarts>>
    /\ UNCHANGED <<calls, schedvars, uivars, delayvars, catvars, prepvars>>

\* load_books_data: the directories whose name starts with book_, sorted by
\* name; the position in the list is the book index
LoadBooksData ==
    /\ name_case.phase = "prepared"
    /\ name_case' = [name_case EXCEPT
          !.phase = "loaded",
          !.book_dirs = sort_by_name({name_case.dirs[1], name_case.dirs[2]})]
    /\ UNCHANGED <<pc, driver, logged_in, books_per_day, processed_books,
                   tracking_file, books_to_process, i, attempted, results,
                   invoked, succeeded, prev, batch_start, loaded_kind,
                   proc_batches, batches, restarts>>
    /\ UNCHANGED <<calls, schedvars, uivars, delayvars, catvars, prepvars>>

OrderNext ==
    \/ PrepareRows
    \/ LoadBooksData

OrderSpec == OrderInit /\ [][OrderNext]_vars

\* ----------------------------------------------------------------- C30
\* C30: for any two rows of the sheet, the first above the second, the
\* prepared directories have different names and the automator's sorted
\* list holds the directory of the first row before that of the second.
C30_NameOrderIsOrdinalOrder ==
    name_case.phase = "loaded" =>
        /\ name_case.dirs[1] # name_case.dirs[2]
        /\ name_case.book_dirs = <<name_case.dirs[1], name_case.dirs[2]>>

====
